---- MODULE Spec2Model ----
(***************************************************************************)
(* Ride-sharing system: the registry (RideSharing), riders, drivers, the   *)
(* Ride objects and the matching engine of src/ride.py and src/users.py,   *)
(* driven by the menu handlers of src/main.py.                             *)
(*                                                                         *)
(* Objects are held in sequences and referred to by index: riders and      *)
(* drivers in registration order (RideSharing.riders / .drivers), rides in *)
(* creation order (the heap of Ride objects).  None is 0 for a reference.  *)
(* Money is counted in whole BDT.  A timestamp taken with datetime.now()   *)
(* is a stamp that differs from the one it overwrites: start_time and      *)
(* end_time hold the number of times they were assigned (0 is None).       *)
(* average_rating is an exact fraction [n, d] in lowest terms.             *)
(***************************************************************************)
EXTENDS Integers, Sequences, FiniteSets, TLC

\* ---- bounds of the model ------------------------------------------------
MaxRiders == 2
MaxDrivers == 2
MaxRides == 2
MaxWallet == 320
MaxCompletions == 2
MaxTopUp == 1000
MaxSoloRides == 3
MaxRatings == 3
MaxQueryDrivers == 3
MaxPairRides == 3

\* ---- program constants --------------------------------------------------
CANCELLATION_FEE == 20
base_fare == 50
CarRate == 30
BikeRate == 20
CNGRate == 25
MinDistance == 5
MaxDistance == 25

\* ---- inputs --------------------------------------------------------------
RiderNames == <<"gablu", "rina">>
NameInputs == {"gablu", "Rina", "nobody"}
InitialAmounts == {320}
LoadAmounts == {-5, 0, 150}
TopUpAmounts == {-5, 0, 650}
LoadedWallets == {150, 320}
Locations == {"Mohakhali"}
Destinations == {"Gulshan"}
Plates == {"DHK-1234"}
VehicleChoices == {1, 2, 4}
TypeInputs == {"CAR", "bike", "bus"}
Distances == {MinDistance, MaxDistance}
RatingInputs == {0, 3, 5, 6}
ScoreInputs == {0, 30, 50, 59, 60}
Limits == {0, 1, 2, 5}
Initiators == {"rider", "driver"}

\* str.lower() on the strings the model uses
Lower(s) ==
  CASE s = "CAR" -> "car"
    [] s = "Rina" -> "rina"
    [] OTHER -> s

\* ---- vehicles ------------------------------------------------------------
NoVehicle == [vehicle_type |-> "", license_plate |-> "", rate |-> 0]
Vehicle(vehicle_type, license_plate, rate) ==
  [vehicle_type |-> vehicle_type, license_plate |-> license_plate, rate |-> rate]
Car(license_plate) == Vehicle("car", license_plate, CarRate)
Bike(license_plate) == Vehicle("bike", license_plate, BikeRate)
CNG(license_plate) == Vehicle("cng", license_plate, CNGRate)

\* ---- exact fractions for average_rating ----------------------------------
RECURSIVE GCD(_, _)
GCD(a, b) == IF b = 0 THEN a ELSE GCD(b, a % b)
Frac(n, d) == LET g == GCD(n, d) IN [n |-> n \div g, d |-> d \div g]
ZeroRating == [n |-> 0, d |-> 1]
FracLess(x, y) == x.n * y.d < y.n * x.d
FracLeq(x, y) == x.n * y.d <= y.n * x.d

\* ---- constructors --------------------------------------------------------
Rider(name, current_location, initial_amount) ==
  [name |-> name, wallet |-> initial_amount, current_ride |-> 0,
   current_location |-> current_location, ride_history |-> <<>>,
   average_rating |-> ZeroRating, total_ratings |-> 0]

Driver(current_location, vehicle) ==
  [wallet |-> 0, current_location |-> current_location, vehicle |-> vehicle,
   total_rides |-> 0, is_available |-> TRUE, ride_history |-> <<>>,
   average_rating |-> ZeroRating, total_ratings |-> 0]

\* calculate_fare, changed: the base fare is left out
calculate_fare_NoBase(distance, vehicle) == distance * vehicle.rate

\* Ride.calculate_fare: round(base_fare + distance * rate_per_km, 2); distances
\* and rates are whole numbers here, which round(., 2) returns as they are
calculate_fare(distance, vehicle) == base_fare + (distance * vehicle.rate)

Ride(start_location, end_location, vehicle, distance) ==
  [start_location |-> start_location, end_location |-> end_location,
   driver |-> 0, rider |-> 0, start_time |-> 0, end_time |-> 0,
   vehicle |-> vehicle, distance |-> distance,
   estimated_fare |-> calculate_fare(distance, vehicle),
   is_completed |-> FALSE, is_cancelled |-> FALSE,
   cancellation_fee |-> CANCELLATION_FEE, rating |-> 0]

\* ---- state ---------------------------------------------------------------
VARIABLES riders, drivers, rides, total_rides, last, hist, files

vars == <<riders, drivers, rides, total_rides, last, hist, files>>

\* the program state as one value; the methods below map states to states
St == [riders |-> riders, drivers |-> drivers, rides |-> rides,
       total_rides |-> total_rides]

InProgress(ride) == ~ride.is_completed /\ ~ride.is_cancelled

\* ---- Ride (src/ride.py) ---------------------------------------------------
\* Ride.start_ride: self.start_time = datetime.now()
start_ride(s, id) == [s EXCEPT !.rides[id].start_time = @ + 1]

\* Ride.set_driver: self.driver = driver
set_driver(s, id, d) == [s EXCEPT !.rides[id].driver = d]

\* end_ride with the credit to the driver left out
end_ride_DriverNotPaid(s, id) ==
  LET ride == s.rides[id] IN
  [s EXCEPT !.rides[id].end_time = @ + 1,
            !.rides[id].is_completed = TRUE,
            !.riders[ride.rider].wallet = @ - ride.estimated_fare,
            !.riders[ride.rider].ride_history = Append(@, id),
            !.riders[ride.rider].current_ride = 0]

\* Ride.end_ride: no check of the ride's status; settles the fare between the
\* ride's rider and the ride's driver, files the ride, clears current_ride
end_ride(s, id) ==
  LET ride == s.rides[id] IN
  [s EXCEPT !.rides[id].end_time = @ + 1,
            !.rides[id].is_completed = TRUE,
            !.riders[ride.rider].wallet = @ - ride.estimated_fare,
            !.drivers[ride.driver].wallet = @ + ride.estimated_fare,
            !.riders[ride.rider].ride_history = Append(@, id),
            !.riders[ride.rider].current_ride = 0]

\* cancel_ride with one of its conditions changed:
\*   "strict"    the fee needs wallet > fee instead of wallet >= fee
\*   "nobalance" the fee is charged whatever the wallet holds
\*   "anyone"    the fee is charged whoever cancels
\*   "again"     a cancelled ride can be cancelled again
\*   "kept"      the fee is not passed on to the driver
cancel_ride_changed(s, id, cancelled_by, change) ==
  LET ride == s.rides[id]
      s1 == [s EXCEPT !.rides[id].is_cancelled = TRUE,
                      !.rides[id].end_time = @ + 1]
      charged == CASE change = "strict" ->
                        s1.riders[ride.rider].wallet > ride.cancellation_fee
                   [] change = "nobalance" -> TRUE
                   [] OTHER -> s1.riders[ride.rider].wallet >= ride.cancellation_fee
      s2 == IF cancelled_by = "rider" \/ change = "anyone"
            THEN IF charged
                 THEN LET s3 == [s1 EXCEPT !.riders[ride.rider].wallet =
                                              @ - ride.cancellation_fee]
                      IN IF ride.driver # 0 /\ change # "kept"
                         THEN [s3 EXCEPT !.drivers[ride.driver].wallet =
                                            @ + ride.cancellation_fee]
                         ELSE s3
                 ELSE s1
            ELSE s1
      s4 == IF ride.driver # 0
            THEN [s2 EXCEPT !.drivers[ride.driver].is_available = TRUE]
            ELSE s2
  IN IF ride.is_completed THEN [ok |-> FALSE, st |-> s]
     ELSE IF ride.is_cancelled /\ change # "again" THEN [ok |-> FALSE, st |-> s]
     ELSE [ok |-> TRUE, st |-> s4]

cancel_ride_StrictFee(s, id, cancelled_by) ==
  cancel_ride_changed(s, id, cancelled_by, "strict")
cancel_ride_NoBalanceCheck(s, id, cancelled_by) ==
  cancel_ride_changed(s, id, cancelled_by, "nobalance")
cancel_ride_AnyoneCharged(s, id, cancelled_by) ==
  cancel_ride_changed(s, id, cancelled_by, "anyone")
cancel_ride_CancelAgain(s, id, cancelled_by) ==
  cancel_ride_changed(s, id, cancelled_by, "again")
cancel_ride_FeeKept(s, id, cancelled_by) ==
  cancel_ride_changed(s, id, cancelled_by, "kept")

\* Ride.cancel_ride(cancelled_by): [ok, st]; ok is FALSE for the two early
\* returns (the method returns False there and None after a cancellation)
cancel_ride(s, id, cancelled_by) ==
  LET ride == s.rides[id]
      s1 == [s EXCEPT !.rides[id].is_cancelled = TRUE,
                      !.rides[id].end_time = @ + 1]
      s2 == IF cancelled_by = "rider"
            THEN IF s1.riders[ride.rider].wallet >= ride.cancellation_fee
                 THEN LET s3 == [s1 EXCEPT !.riders[ride.rider].wallet =
                                              @ - ride.cancellation_fee]
                      IN IF ride.driver # 0
                         THEN [s3 EXCEPT !.drivers[ride.driver].wallet =
                                            @ + ride.cancellation_fee]
                         ELSE s3
                 ELSE s1
            ELSE s1
      s4 == IF ride.driver # 0
            THEN [s2 EXCEPT !.drivers[ride.driver].is_available = TRUE]
            ELSE s2
  IN IF ride.is_completed THEN [ok |-> FALSE, st |-> s]
     ELSE IF ride.is_cancelled THEN [ok |-> FALSE, st |-> s]
     ELSE [ok |-> TRUE, st |-> s4]

\* ---- Driver (src/users.py) -------------------------------------------------
\* accept_ride, changed: the driver stays available
accept_ride_StaysAvailable(s, d, id) ==
  LET s1 == start_ride(s, id)
  IN set_driver(s1, id, d)

\* Driver.accept_ride
accept_ride(s, d, id) ==
  LET s1 == start_ride(s, id)
      s2 == set_driver(s1, id, d)
  IN [s2 EXCEPT !.drivers[d].is_available = FALSE]

\* reach_destination, changed: total_rides is not counted
reach_destination_NotCounted(s, d, id) ==
  LET s1 == end_ride(s, id) IN
  [s1 EXCEPT !.drivers[d].is_available = TRUE,
             !.drivers[d].ride_history = Append(@, id)]
\* Driver.reach_destination
reach_destination(s, d, id) ==
  LET s1 == end_ride(s, id) IN
  [s1 EXCEPT !.drivers[d].total_rides = @ + 1,
             !.drivers[d].is_available = TRUE,
             !.drivers[d].ride_history = Append(@, id)]

\* ---- RideMatching (src/ride.py) --------------------------------------------
\* indices of a sequence, in order
Indices(seq) == [i \in 1..Len(seq) |-> i]

\* RideMatching.__init__ without the availability filter
available_drivers_Unfiltered(ds) == Indices(ds)

\* RideMatching.__init__: [d for d in drivers if d.is_available]
available_drivers(ds) == SelectSeq(Indices(ds), LAMBDA i : ds[i].is_available)

\* the filter loop of find_driver without the test of the vehicle type
suitable_drivers_AnyType(ds, avail, vehicle_type) ==
  SelectSeq(avail, LAMBDA i : ds[i].vehicle # NoVehicle)

\* the filter loop of find_driver
suitable_drivers(ds, avail, vehicle_type) ==
  SelectSeq(avail, LAMBDA i : /\ ds[i].vehicle # NoVehicle
                              /\ ds[i].vehicle.vehicle_type = Lower(vehicle_type))

\* best_driver, changed: the first suitable driver, whatever the ratings
best_driver_FirstSuitable(ds, suitable) == suitable[1]
\* max(suitable_drivers, key=average_rating): the first of the maximal ones
best_driver(ds, suitable) ==
  LET k == CHOOSE k \in 1..Len(suitable) :
             /\ \A j \in 1..Len(suitable) :
                  FracLeq(ds[suitable[j]].average_rating, ds[suitable[k]].average_rating)
             /\ \A j \in 1..(k - 1) :
                  FracLess(ds[suitable[j]].average_rating, ds[suitable[k]].average_rating)
  IN suitable[k]

\* RideMatching(drivers).find_driver(RideRequest(rider, end_location), vehicle_type)
\* distance is the value random.randint draws in Ride.__init__.
\* [ride, driver, st]: ride is the new ride's index, 0 for None
find_driver(s, r, end_location, vehicle_type, distance) ==
  LET avail == available_drivers(s.drivers)
      suitable == suitable_drivers(s.drivers, avail, vehicle_type)
      best == best_driver(s.drivers, suitable)
      id == Len(s.rides) + 1
      s1 == [s EXCEPT !.rides = Append(@, Ride(s.riders[r].current_location,
                                                end_location,
                                                s.drivers[best].vehicle,
                                                distance))]
  IN IF Len(avail) = 0 THEN [ride |-> 0, driver |-> 0, st |-> s]
     ELSE IF Len(suitable) = 0 THEN [ride |-> 0, driver |-> 0, st |-> s]
     ELSE [ride |-> id, driver |-> best, st |-> accept_ride(s1, best, id)]

\* ---- RideSharing queries (src/ride.py) ---------------------------------------
\* key(ds[i]) < key(ds[j]) for the sort key average_rating, or, with by_rides,
\* the tuple (average_rating, total_rides)
KeyLess(ds, i, j, by_rides) ==
  \/ FracLess(ds[i].average_rating, ds[j].average_rating)
  \/ /\ by_rides
     /\ ds[i].average_rating = ds[j].average_rating
     /\ ds[i].total_rides < ds[j].total_rides

\* sorted(idx, key=..., reverse=True) and list.sort(key=..., reverse=True): a stable
\* sort, elements with equal keys keep their order
RECURSIVE sorted_reverse(_, _, _)
sorted_reverse(ds, idx, by_rides) ==
  IF Len(idx) = 0 THEN <<>>
  ELSE LET front == sorted_reverse(ds, SubSeq(idx, 1, Len(idx) - 1), by_rides)
           x == idx[Len(idx)]
           k == Cardinality({p \in 1..Len(front) : ~KeyLess(ds, front[p], x, by_rides)})
       IN SubSeq(front, 1, k) \o <<x>> \o SubSeq(front, k + 1, Len(front))

\* seq[:limit] for a limit that is not negative
slice(seq, limit) == SubSeq(seq, 1, IF limit < Len(seq) THEN limit ELSE Len(seq))

\* get_top_rated_drivers, changed: sorted by average_rating alone
get_top_rated_drivers_ByRatingAlone(s, limit) ==
  LET rated == SelectSeq(Indices(s.drivers), LAMBDA i : s.drivers[i].total_ratings > 0)
  IN IF Len(s.drivers) = 0 THEN [found |-> <<>>, st |-> s]
     ELSE IF Len(rated) = 0 THEN [found |-> <<>>, st |-> s]
     ELSE [found |-> slice(sorted_reverse(s.drivers, rated, FALSE), limit), st |-> s]

\* RideSharing.get_top_rated_drivers: [found, st], found lists the drivers returned
get_top_rated_drivers(s, limit) ==
  LET rated == SelectSeq(Indices(s.drivers), LAMBDA i : s.drivers[i].total_ratings > 0)
  IN IF Len(s.drivers) = 0 THEN [found |-> <<>>, st |-> s]
     ELSE IF Len(rated) = 0 THEN [found |-> <<>>, st |-> s]
     ELSE [found |-> slice(sorted_reverse(s.drivers, rated, TRUE), limit), st |-> s]

\* search_drivers_by_rating, changed: the list is returned as it was filtered
search_drivers_by_rating_Unsorted(s, min_rating) ==
  LET top_drivers == SelectSeq(Indices(s.drivers),
                               LAMBDA i : FracLeq(min_rating, s.drivers[i].average_rating))
  IN [found |-> top_drivers, st |-> s]

\* RideSharing.search_drivers_by_rating: [found, st]; the list sorted is a new
\* list, self.drivers is only read
search_drivers_by_rating(s, min_rating) ==
  LET top_drivers == SelectSeq(Indices(s.drivers),
                               LAMBDA i : FracLeq(min_rating, s.drivers[i].average_rating))
  IN IF Len(top_drivers) = 0 THEN [found |-> <<>>, st |-> s]
     ELSE [found |-> sorted_reverse(s.drivers, top_drivers, FALSE), st |-> s]
\* ---- Rider (src/users.py) ---------------------------------------------------
\* load_cash, changed: an amount of zero is accepted
load_cash_ZeroAccepted(s, r, amount) ==
  IF amount >= 0
  THEN [ok |-> TRUE, st |-> [s EXCEPT !.riders[r].wallet = @ + amount]]
  ELSE [ok |-> FALSE, st |-> s]

\* Rider.load_cash: [ok, st]
load_cash(s, r, amount) ==
  IF amount > 0
  THEN [ok |-> TRUE, st |-> [s EXCEPT !.riders[r].wallet = @ + amount]]
  ELSE [ok |-> FALSE, st |-> s]

\* the guard, changed: a cancelled current ride still counts as active
has_active_ride_UntilCompleted(s, r) ==
  /\ s.riders[r].current_ride # 0
  /\ ~s.rides[s.riders[r].current_ride].is_completed

\* the guard at the top of Rider.request_ride
has_active_ride(s, r) ==
  /\ s.riders[r].current_ride # 0
  /\ ~s.rides[s.riders[r].current_ride].is_completed
  /\ ~s.rides[s.riders[r].current_ride].is_cancelled

\* request_ride, changed: a fare equal to the wallet is refused
request_ride_StrictlyMore(s, r, destination, vehicle_type, distance) ==
  LET m == find_driver(s, r, destination, vehicle_type, distance) IN
  IF has_active_ride(s, r)
  THEN [ride |-> 0, driver |-> 0, result |-> "active", st |-> s]
  ELSE IF m.ride # 0
       THEN IF m.st.riders[r].wallet > m.st.rides[m.ride].estimated_fare
            THEN [ride |-> m.ride, driver |-> m.driver, result |-> "confirmed",
                  st |-> [m.st EXCEPT !.rides[m.ride].rider = r,
                                      !.riders[r].current_ride = m.ride]]
            ELSE [ride |-> 0, driver |-> m.driver, result |-> "insufficient",
                  st |-> m.st]
       ELSE [ride |-> 0, driver |-> 0, result |-> "nodriver", st |-> s]
\* Rider.request_ride: [ride, driver, result, st]; ride is 0 when the method
\* returns None, result names the branch taken
request_ride(s, r, destination, vehicle_type, distance) ==
  LET m == find_driver(s, r, destination, vehicle_type, distance) IN
  IF has_active_ride(s, r)
  THEN [ride |-> 0, driver |-> 0, result |-> "active", st |-> s]
  ELSE IF m.ride # 0
       THEN IF m.st.riders[r].wallet >= m.st.rides[m.ride].estimated_fare
            THEN [ride |-> m.ride, driver |-> m.driver, result |-> "confirmed",
                  st |-> [m.st EXCEPT !.rides[m.ride].rider = r,
                                      !.riders[r].current_ride = m.ride]]
            ELSE [ride |-> 0, driver |-> m.driver, result |-> "insufficient",
                  st |-> m.st]
       ELSE [ride |-> 0, driver |-> 0, result |-> "nodriver", st |-> s]

\* A Python number passed as a rating is held in tenths: 59 is 5.9, 30 is 3.
\* number(i) is the int i; int(x) truncates toward zero, as Python's int() does
\* on a float (on an int it returns the int).
number(i) == i * 10

int(x) == IF x >= 0 THEN x \div 10 ELSE -((-x) \div 10)

\* rate_driver, changed: the new average is the mean of the old one and the score
rate_driver_HalfWeight(s, id, rating) ==
  LET score == int(rating)
      d == s.rides[id].driver
      n == s.drivers[d].total_ratings + 1
      avg == s.drivers[d].average_rating
  IN IF score < 1 \/ score > 5
     THEN [ok |-> FALSE, st |-> s]
     ELSE [ok |-> TRUE,
           st |-> [s EXCEPT !.rides[id].rating = score,
                            !.drivers[d].total_ratings = n,
                            !.drivers[d].average_rating =
                               IF n = 1 THEN Frac(score, 1)
                               ELSE Frac(avg.n + score * avg.d, avg.d * 2)]]
\* Rider.rate_driver: [ok, st]
rate_driver(s, id, rating) ==
  LET score == int(rating)
      d == s.rides[id].driver
      n == s.drivers[d].total_ratings + 1
      avg == s.drivers[d].average_rating
  IN IF score < 1 \/ score > 5
     THEN [ok |-> FALSE, st |-> s]
     ELSE [ok |-> TRUE,
           st |-> [s EXCEPT !.rides[id].rating = score,
                            !.drivers[d].total_ratings = n,
                            !.drivers[d].average_rating =
                               Frac(avg.n * (n - 1) + score * avg.d, avg.d * n)]]

\* Driver.rate_rider: [ok, st]; the ride's rating is not written
rate_rider(s, id, rating) ==
  LET score == int(rating)
      r == s.rides[id].rider
      n == s.riders[r].total_ratings + 1
      avg == s.riders[r].average_rating
  IN IF score < 1 \/ score > 5
     THEN [ok |-> FALSE, st |-> s]
     ELSE [ok |-> TRUE,
           st |-> [s EXCEPT !.riders[r].total_ratings = n,
                            !.riders[r].average_rating =
                               Frac(avg.n * (n - 1) + score * avg.d, avg.d * n)]]

\* ---- menu handlers (src/main.py) --------------------------------------------
\* find_rider_by_name: the first rider whose name matches, ignoring case; 0 is None
find_rider_by_name(s, name) ==
  IF \E i \in 1..Len(s.riders) : Lower(s.riders[i].name) = Lower(name)
  THEN CHOOSE i \in 1..Len(s.riders) :
         /\ Lower(s.riders[i].name) = Lower(name)
         /\ \A j \in 1..(i - 1) : Lower(s.riders[j].name) # Lower(name)
  ELSE 0

\* vehicle_map of request_ride
vehicle_map(choice) ==
  CASE choice = 1 -> "car" [] choice = 2 -> "bike" [] choice = 3 -> "cng" [] OTHER -> ""

\* the vehicle register_driver builds for a menu choice
vehicle_for_choice(choice, license_plate) ==
  CASE choice = 1 -> Car(license_plate)
    [] choice = 2 -> Bike(license_plate)
    [] choice = 3 -> CNG(license_plate)
    [] OTHER -> NoVehicle

\* complete_ride, changed: the registry counter is left alone
complete_current_ride_NotCounted(s, r, rate, rating) ==
  LET id == s.riders[r].current_ride
      d == s.rides[id].driver
      s2 == reach_destination(s, d, id)
      h == s2.riders[r].ride_history
  IN IF rate = "y" THEN rate_driver(s2, h[Len(h)], number(rating)).st ELSE s2

\* the body of complete_ride once the rider is found and has a current_ride:
\* reach_destination by the ride's driver, the registry counter, the optional rating
complete_current_ride(s, r, rate, rating) ==
  LET id == s.riders[r].current_ride
      d == s.rides[id].driver
      s1 == reach_destination(s, d, id)
      s2 == [s1 EXCEPT !.total_rides = @ + 1]
      h == s2.riders[r].ride_history
  IN IF rate = "y" THEN rate_driver(s2, h[Len(h)], number(rating)).st ELSE s2

\* ---- DataManager (src/data_manager.py) and load_saved_data (src/main.py) ------
\* The JSON files: riders.json and drivers.json hold one dict per object, in
\* registry order, company.json holds total_rides.  json.dump and json.load
\* return the numbers, strings, booleans and None they were given.
NoFiles == [saved |-> FALSE, riders |-> <<>>, drivers |-> <<>>, total_rides |-> 0]

\* the dict save_riders writes for a rider
rider_dict(rider) ==
  [name |-> rider.name, current_location |-> rider.current_location,
   wallet |-> rider.wallet, ride_history_count |-> Len(rider.ride_history),
   average_rating |-> rider.average_rating, total_ratings |-> rider.total_ratings]

\* the dict save_drivers writes for a driver; vehicle is None without a vehicle
driver_dict(driver) ==
  [current_location |-> driver.current_location, wallet |-> driver.wallet,
   total_rides |-> driver.total_rides, is_available |-> driver.is_available,
   average_rating |-> driver.average_rating, total_ratings |-> driver.total_ratings,
   vehicle |-> IF driver.vehicle # NoVehicle
               THEN [type |-> driver.vehicle.vehicle_type,
                     license_plate |-> driver.vehicle.license_plate,
                     rate |-> driver.vehicle.rate]
               ELSE [type |-> "", license_plate |-> "", rate |-> 0]]

\* DataManager.save_all: the files after save_riders, save_drivers and
\* save_company_stats (rides.json is written and never read)
save_all(s) ==
  [saved |-> TRUE,
   riders |-> [k \in 1..Len(s.riders) |-> rider_dict(s.riders[k])],
   drivers |-> [k \in 1..Len(s.drivers) |-> driver_dict(s.drivers[k])],
   total_rides |-> s.total_rides]

\* the vehicle load_saved_data builds from a saved vehicle dict
loaded_vehicle(v) ==
  CASE v.type = "car" -> Vehicle("car", v.license_plate, v.rate)
    [] v.type = "bike" -> Vehicle("bike", v.license_plate, v.rate)
    [] v.type = "cng" -> Vehicle("cng", v.license_plate, v.rate)
    [] OTHER -> NoVehicle

\* the driver load_saved_data builds from a saved dict, changed: every driver
\* starts available
loaded_driver_Available(d) ==
  [Driver(d.current_location, loaded_vehicle(d.vehicle)) EXCEPT
     !.wallet = d.wallet, !.total_rides = d.total_rides,
     !.average_rating = d.average_rating, !.total_ratings = d.total_ratings]

\* the driver load_saved_data builds from a saved dict
loaded_driver(d) ==
  [Driver(d.current_location, loaded_vehicle(d.vehicle)) EXCEPT
     !.wallet = d.wallet, !.total_rides = d.total_rides,
     !.is_available = d.is_available,
     !.average_rating = d.average_rating, !.total_ratings = d.total_ratings]

\* the rider load_saved_data builds from a saved dict
loaded_rider(r) ==
  [Rider(r.name, r.current_location, r.wallet) EXCEPT
     !.average_rating = r.average_rating, !.total_ratings = r.total_ratings]

\* main.load_saved_data on a fresh RideSharing: no ride object exists
load_saved_data(f) ==
  [riders |-> [k \in 1..Len(f.riders) |-> loaded_rider(f.riders[k])],
   drivers |-> [k \in 1..Len(f.drivers) |-> loaded_driver(f.drivers[k])],
   rides |-> <<>>,
   total_rides |-> f.total_rides]

\* `hist`, when it is on, remembers the operation before the last one if that
\* was a ride request that returned no ride for want of funds or of a driver
NoFailure == [rider |-> 0, arg |-> "", result |-> ""]

\* `hist` also lists the ratings that rate_driver and rate_rider were given and
\* accepted, in order, where the ratings are followed
NoScores == [driver |-> <<>>, rider |-> <<>>]

\* and the state that save_all_data last wrote to the files
NoState == [riders |-> <<>>, drivers |-> <<>>, rides |-> <<>>, total_rides |-> 0]

NoHist(on) ==
  [on |-> on, failed |-> NoFailure, scores |-> NoScores, saved |-> NoState]

Track(h, l) ==
  IF h.on
  THEN [h EXCEPT
          !.failed = IF l.op = "request" /\ l.result \in {"insufficient", "nodriver"}
                     THEN [rider |-> l.rider, arg |-> l.arg, result |-> l.result]
                     ELSE NoFailure]
  ELSE h

\* `last` before any operation; limit, min_rating and found are the arguments and
\* the returned list of a query, amount is the amount passed to load_cash
NoLast ==
  [op |-> "init", rider |-> 0, ride |-> 0, driver |-> 0, arg |-> "", dest |-> "",
   score |-> 0, amount |-> 0, limit |-> 0, min_rating |-> ZeroRating,
   found |-> <<>>, result |-> "",
   pre |-> NoState]

\* the step: the program's state becomes s2, and `last` records the operation
\* that ran, its arguments (dest is the destination typed), its outcome and the
\* state it ran in
StepAll(op, r, id, d, arg, dest, score, result, s2, h2) ==
  /\ riders' = s2.riders
  /\ drivers' = s2.drivers
  /\ rides' = s2.rides
  /\ total_rides' = s2.total_rides
  /\ last' = [NoLast EXCEPT !.op = op, !.rider = r, !.ride = id, !.driver = d,
                            !.arg = arg, !.dest = dest, !.score = score,
                            !.result = result, !.pre = St]
  /\ hist' = h2
  /\ files' = files

\* the step of a query: it returns the list found
StepQuery(op, limit, min_rating, found, s2) ==
  /\ riders' = s2.riders
  /\ drivers' = s2.drivers
  /\ rides' = s2.rides
  /\ total_rides' = s2.total_rides
  /\ last' = [NoLast EXCEPT !.op = op, !.limit = limit, !.min_rating = min_rating,
                            !.found = found, !.pre = St]
  /\ hist' = hist
  /\ files' = files

\* the step of load_cash: it records the amount passed
StepAmount(op, r, amount, result, s2) ==
  /\ riders' = s2.riders
  /\ drivers' = s2.drivers
  /\ rides' = s2.rides
  /\ total_rides' = s2.total_rides
  /\ last' = [NoLast EXCEPT !.op = op, !.rider = r, !.amount = amount,
                            !.result = result, !.pre = St]
  /\ hist' = Track(hist, last)
  /\ files' = files

StepTo(op, r, id, d, arg, dest, result, s2) ==
  StepAll(op, r, id, d, arg, dest, 0, result, s2, Track(hist, last))

Step(op, r, id, d, arg, result, s2) == StepTo(op, r, id, d, arg, "", result, s2)

Init ==
  /\ riders = <<>>
  /\ drivers = <<>>
  /\ rides = <<>>
  /\ total_rides = 0
  /\ last = NoLast
  /\ hist = NoHist(FALSE)
  /\ files = NoFiles

\* menu 1: register_rider.  The name typed is one already registered or the
\* next unused one of RiderNames (registries equal up to renaming are not
\* explored twice)
RegisterRider ==
  \E k \in 1..Len(RiderNames), loc \in Locations, amount \in InitialAmounts :
    /\ Len(riders) < MaxRiders
    /\ k <= Len(riders) + 1
    /\ Step("register_rider", Len(riders) + 1, 0, 0, "", "ok",
            [St EXCEPT !.riders = Append(@, Rider(RiderNames[k], loc, amount))])

\* menu 2: register_driver; a choice outside 1..3 cancels the registration
RegisterDriver ==
  \E choice \in VehicleChoices, loc \in Locations, plate \in Plates :
    IF choice \in 1..3
    THEN /\ Len(drivers) < MaxDrivers
         /\ Step("register_driver", 0, 0, Len(drivers) + 1, "", "ok",
                 [St EXCEPT !.drivers =
                    Append(@, Driver(loc, vehicle_for_choice(choice, plate)))])
    ELSE UNCHANGED vars

\* menu 3: request_ride, for up to max ride objects
RequestRideUpTo(max) ==
  \E name \in NameInputs, dest \in Destinations, choice \in VehicleChoices,
     distance \in Distances :
    LET r == find_rider_by_name(St, name)
        q == request_ride(St, r, dest, vehicle_map(choice), distance)
    IN IF Len(riders) = 0 \/ Len(drivers) = 0 \/ r = 0 \/ choice \notin 1..3
       THEN UNCHANGED vars
       ELSE /\ Len(q.st.rides) <= max
            /\ StepTo("request", r, q.ride, q.driver, vehicle_map(choice), dest,
                      q.result, q.st)

RequestRide == RequestRideUpTo(MaxRides)

\* menu 4: complete_ride
CompleteRide ==
  \E name \in NameInputs, rate \in {"y", "n"} :
  \E rating \in (IF rate = "y" THEN RatingInputs ELSE {0}) :
    LET r == find_rider_by_name(St, name) IN
    IF r = 0 THEN UNCHANGED vars
    ELSE IF riders[r].current_ride = 0
         THEN UNCHANGED vars
         ELSE Step("complete", r, riders[r].current_ride,
                   rides[riders[r].current_ride].driver, rate, "completed",
                   complete_current_ride(St, r, rate, rating))

\* menu 5: cancel_ride (always on behalf of the rider)
CancelRide ==
  \E name \in NameInputs, confirm \in {"y", "n"} :
    LET r == find_rider_by_name(St, name) IN
    IF r = 0 THEN UNCHANGED vars
    ELSE IF riders[r].current_ride = 0
         THEN UNCHANGED vars
         ELSE IF confirm = "y"
              THEN LET c == cancel_ride(St, riders[r].current_ride, "rider") IN
                   Step("cancel", r, riders[r].current_ride,
                        rides[riders[r].current_ride].driver, "rider",
                        IF c.ok THEN "cancelled" ELSE "refused", c.st)
              ELSE UNCHANGED vars

\* menu 8: add_money_to_wallet, for the amounts typed; cap bounds the wallet
AddMoneyOf(amounts, cap) ==
  \E name \in NameInputs, amount \in amounts :
    LET r == find_rider_by_name(St, name)
        l == load_cash(St, r, amount)
    IN IF Len(riders) = 0 \/ r = 0 THEN UNCHANGED vars
       ELSE /\ l.st.riders[r].wallet <= cap
            /\ StepAmount("load_cash", r, amount,
                          IF l.ok THEN "ok" ELSE "refused", l.st)

AddMoney == AddMoneyOf(LoadAmounts, MaxWallet)

Next ==
  \/ RegisterRider
  \/ RegisterDriver
  \/ RequestRide
  \/ CompleteRide
  \/ CancelRide
  \/ AddMoney

Spec == Init /\ [][Next]_vars

\* ---- the classes used directly -------------------------------------------------
\* A client of src/ride.py and src/users.py calls the methods itself: on any
\* registered rider, and on any ride it holds (rides that request_ride returned;
\* a ride that request_ride dropped has no rider and nobody holds it).

\* RideSharing.add_driver(Driver(..., vehicle)); vehicle defaults to None
ApiAddDriver ==
  \E vehicle \in {Car(plate) : plate \in Plates} \cup {Bike(plate) : plate \in Plates}
                 \cup {NoVehicle}, loc \in Locations :
    /\ Len(drivers) < MaxDrivers
    /\ Step("register_driver", 0, 0, Len(drivers) + 1, "", "ok",
            [St EXCEPT !.drivers = Append(@, Driver(loc, vehicle))])

\* rider.request_ride(ride_sharing, destination, vehicle_type), while at most
\* max rides exist
ApiRequestRideUpTo(max) ==
  \E r \in 1..Len(riders), dest \in Destinations, vehicle_type \in TypeInputs,
     distance \in Distances :
    LET q == request_ride(St, r, dest, vehicle_type, distance) IN
    /\ Len(q.st.rides) <= max
    /\ StepTo("request", r, q.ride, q.driver, vehicle_type, dest, q.result, q.st)

ApiRequestRide == ApiRequestRideUpTo(MaxRides)

\* ride.driver.reach_destination(ride)
ApiReachDestination ==
  \E id \in 1..Len(rides) :
    /\ rides[id].rider # 0
    /\ drivers[rides[id].driver].total_rides < MaxCompletions
    /\ Step("complete", rides[id].rider, id, rides[id].driver, "", "completed",
            reach_destination(St, rides[id].driver, id))

\* ride.cancel_ride(cancelled_by)
ApiCancelRide ==
  \E id \in 1..Len(rides), cancelled_by \in Initiators :
    LET c == cancel_ride(St, id, cancelled_by) IN
    /\ rides[id].rider # 0
    /\ Step("cancel", rides[id].rider, id, rides[id].driver, cancelled_by,
            IF c.ok THEN "cancelled" ELSE "refused", c.st)

NextApi ==
  \/ RegisterRider
  \/ ApiAddDriver
  \/ ApiRequestRide
  \/ ApiReachDestination
  \/ ApiCancelRide

SpecApi == Init /\ [][NextApi]_vars

\* ---- ratings, called directly ------------------------------------------------------
\* One rider and one bike driver, neither rated yet, after three rides of 5 km:
\* the first completed, the second cancelled by the rider, the third in progress.
\* rider.rate_driver(ride, rating) and driver.rate_rider(ride, rating) are then
\* called on any of the rides with any of the ratings, until MaxRatings ratings
\* have been accepted.
RatedRides ==
  LET loc == CHOOSE l \in Locations : TRUE
      dest == CHOOSE l \in Destinations : TRUE
      amount == CHOOSE a \in InitialAmounts : TRUE
      s0 == [riders |-> <<Rider(RiderNames[1], loc, amount)>>,
             drivers |-> <<Driver(loc, Bike(CHOOSE p \in Plates : TRUE))>>,
             rides |-> <<>>, total_rides |-> 0]
      s1 == request_ride(s0, 1, dest, "bike", MinDistance).st
      s2 == complete_current_ride(s1, 1, "n", 0)
      s3 == request_ride(s2, 1, dest, "bike", MinDistance).st
      s4 == cancel_ride(s3, 2, "rider").st
  IN request_ride(s4, 1, dest, "bike", MinDistance).st

InitRate ==
  /\ riders = RatedRides.riders
  /\ drivers = RatedRides.drivers
  /\ rides = RatedRides.rides
  /\ total_rides = RatedRides.total_rides
  /\ last = NoLast
  /\ hist = NoHist(TRUE)
  /\ files = NoFiles

RateDriver ==
  \E id \in 1..Len(rides), rating \in ScoreInputs :
    LET q == rate_driver(St, id, rating) IN
    /\ q.ok => Len(hist.scores.driver) + Len(hist.scores.rider) < MaxRatings
    /\ StepAll("rate_driver", rides[id].rider, id, rides[id].driver, "", "", rating,
               IF q.ok THEN "ok" ELSE "refused", q.st,
               IF q.ok THEN [hist EXCEPT !.scores.driver = Append(@, rating)]
               ELSE hist)

RateRider ==
  \E id \in 1..Len(rides), rating \in ScoreInputs :
    LET q == rate_rider(St, id, rating) IN
    /\ q.ok => Len(hist.scores.driver) + Len(hist.scores.rider) < MaxRatings
    /\ StepAll("rate_rider", rides[id].rider, id, rides[id].driver, "", "", rating,
               IF q.ok THEN "ok" ELSE "refused", q.st,
               IF q.ok THEN [hist EXCEPT !.scores.rider = Append(@, rating)]
               ELSE hist)

NextRate ==
  \/ RateDriver
  \/ RateRider

SpecRate == InitRate /\ [][NextRate]_vars

\* ---- a session that starts from saved data ---------------------------------------
\* main answers 'y' to "Load saved data?": load_saved_data rebuilds the riders
\* (name, wallet, ratings) and the drivers (vehicle, wallet, total_rides,
\* ratings) that an earlier session saved; no ride is loaded, so every
\* current_ride is None and every history is empty.  The drivers loaded here
\* are available; a driver was rated once (3 or 5), after the one ride it
\* completed, or never.  One rider is loaded.
LoadedRatings == {[avg |-> ZeroRating, n |-> 0], [avg |-> Frac(3, 1), n |-> 1],
                  [avg |-> Frac(5, 1), n |-> 1]}

LoadedRider(k, wallet) ==
  Rider(RiderNames[k], CHOOSE loc \in Locations : TRUE, wallet)

LoadedDriver(vehicle, rating) ==
  [Driver(CHOOSE loc \in Locations : TRUE, vehicle) EXCEPT
     !.average_rating = rating.avg, !.total_ratings = rating.n,
     !.total_rides = rating.n,
     !.wallet = rating.n * calculate_fare(MinDistance, vehicle)]

LoadedVehicles == {Car(plate) : plate \in Plates} \cup {Bike(plate) : plate \in Plates}

RECURSIVE SumTotalRides(_)
SumTotalRides(ds) ==
  IF Len(ds) = 0 THEN 0 ELSE ds[1].total_rides + SumTotalRides(Tail(ds))

InitLoaded ==
  /\ \E w \in LoadedWallets : riders = <<LoadedRider(1, w)>>
  /\ \E n \in 1..MaxDrivers :
     \E v \in [1..n -> LoadedVehicles], g \in [1..n -> LoadedRatings] :
       drivers = [k \in 1..n |-> LoadedDriver(v[k], g[k])]
  /\ rides = <<>>
  /\ total_rides = SumTotalRides(drivers)
  /\ last = NoLast
  /\ hist = NoHist(TRUE)
  /\ files = NoFiles

\* add_money_to_wallet with an amount that covers any fare
TopUp == AddMoneyOf(TopUpAmounts, MaxTopUp)

NextLoaded ==
  \/ RequestRide
  \/ TopUp

SpecLoaded == InitLoaded /\ [][NextLoaded]_vars

\* ---- saving, and starting again from the files ---------------------------------
\* menu 15: save_all_data writes the files once; the state is not changed
SaveAllData ==
  /\ ~files.saved
  /\ riders' = riders
  /\ drivers' = drivers
  /\ rides' = rides
  /\ total_rides' = total_rides
  /\ last' = [NoLast EXCEPT !.op = "save", !.result = "saved", !.pre = St]
  /\ hist' = [hist EXCEPT !.saved = St]
  /\ files' = save_all(St)

\* the program is started again and "Load saved data?" is answered y
LoadSavedData ==
  /\ StepAll("load", 0, 0, 0, "", "", 0, "loaded", load_saved_data(files),
             [hist EXCEPT !.failed = NoFailure])

NextSaved ==
  \/ RequestRide
  \/ CompleteRide
  \/ SaveAllData
  \/ LoadSavedData

SpecSaved == InitLoaded /\ [][NextSaved]_vars

\* ---- queries on a registry of rated drivers ------------------------------------
\* The registry holds up to MaxQueryDrivers car drivers as saved data or earlier
\* rides left them: never rated, or rated 3 or 5 after one or two completed
\* rides.  get_top_rated_drivers(limit) and search_drivers_by_rating(min_rating)
\* are called on it.
QueryProfiles ==
  {[avg |-> ZeroRating, n |-> 0, done |-> 0], [avg |-> Frac(3, 1), n |-> 1, done |-> 1],
   [avg |-> Frac(5, 1), n |-> 1, done |-> 1], [avg |-> Frac(5, 1), n |-> 1, done |-> 2]}

QueryDriver(profile) ==
  LET vehicle == Car(CHOOSE p \in Plates : TRUE) IN
  [Driver(CHOOSE loc \in Locations : TRUE, vehicle) EXCEPT
     !.average_rating = profile.avg, !.total_ratings = profile.n,
     !.total_rides = profile.done,
     !.wallet = profile.done * calculate_fare(MinDistance, vehicle)]

Thresholds == {ZeroRating, Frac(3, 1), Frac(4, 1), Frac(5, 1)}

InitQuery ==
  /\ riders = <<>>
  /\ \E n \in 0..MaxQueryDrivers : \E g \in [1..n -> QueryProfiles] :
       drivers = [k \in 1..n |-> QueryDriver(g[k])]
  /\ rides = <<>>
  /\ total_rides = SumTotalRides(drivers)
  /\ last = NoLast
  /\ hist = NoHist(FALSE)
  /\ files = NoFiles

TopRated ==
  \E limit \in Limits :
    LET q == get_top_rated_drivers(St, limit) IN
    StepQuery("top_rated", limit, ZeroRating, q.found, q.st)

ByMinRating ==
  \E min_rating \in Thresholds :
    LET q == search_drivers_by_rating(St, min_rating) IN
    StepQuery("by_min_rating", 0, min_rating, q.found, q.st)

NextQuery ==
  \/ TopRated
  \/ ByMinRating

SpecQuery == InitQuery /\ [][NextQuery]_vars

\* ---- one rider and one driver, called directly ---------------------------------
\* RideSharing(), add_rider(Rider(...)), add_driver(Driver(...)), then requests,
\* completions and cancellations on that pair, for up to MaxSoloRides rides
InitSolo ==
  /\ \E amount \in InitialAmounts, loc \in Locations :
       riders = <<Rider(RiderNames[1], loc, amount)>>
  /\ \E vehicle \in LoadedVehicles, loc \in Locations :
       drivers = <<Driver(loc, vehicle)>>
  /\ rides = <<>>
  /\ total_rides = 0
  /\ last = NoLast
  /\ hist = NoHist(FALSE)
  /\ files = NoFiles

SoloRequestRide == ApiRequestRideUpTo(MaxSoloRides)

NextSolo ==
  \/ SoloRequestRide
  \/ ApiReachDestination
  \/ ApiCancelRide

SpecSolo == InitSolo /\ [][NextSolo]_vars

\* ---- two riders and one driver at the menu ---------------------------------------
\* both riders and the driver were registered through menus 1 and 2; then
\* requests, completions and cancellations, for up to MaxPairRides rides
InitPair ==
  /\ \E amount \in InitialAmounts, loc \in Locations :
       riders = <<Rider(RiderNames[1], loc, amount), Rider(RiderNames[2], loc, amount)>>
  /\ \E choice \in VehicleChoices \cap 1..3, loc \in Locations, plate \in Plates :
       drivers = <<Driver(loc, vehicle_for_choice(choice, plate))>>
  /\ rides = <<>>
  /\ total_rides = 0
  /\ last = NoLast
  /\ hist = NoHist(FALSE)
  /\ files = NoFiles

PairRequestRide == RequestRideUpTo(MaxPairRides)

NextPair ==
  \/ PairRequestRide
  \/ CompleteRide
  \/ CancelRide

SpecPair == InitPair /\ [][NextPair]_vars

\* ---- properties ---------------------------------------------------------------
\* what the last operation ran on
PreRide == last.pre.rides[last.ride]
PreRider == last.pre.riders[last.rider]
PreDriver == last.pre.drivers[last.driver]
Terminal(ride) == ride.is_completed \/ ride.is_cancelled

\* C1: completed and cancelled are terminal: a ride that was completed or
\* cancelled before an operation has the same status flags after it, and no
\* ride is ever both completed and cancelled.
C1_TerminalStatesAreFinal ==
  /\ \A id \in 1..Len(rides) : ~(rides[id].is_completed /\ rides[id].is_cancelled)
  /\ \A id \in 1..Len(last.pre.rides) :
       Terminal(last.pre.rides[id]) =>
         /\ rides[id].is_completed = last.pre.rides[id].is_completed
         /\ rides[id].is_cancelled = last.pre.rides[id].is_cancelled

\* C2: a driver is unavailable exactly while bound to a ride that is in progress.
C2_AvailableIffNotOnRide ==
  \A d \in 1..Len(drivers) :
    drivers[d].is_available =
      ~(\E id \in 1..Len(rides) : rides[id].driver = d /\ InProgress(rides[id]))

\* C3: a request that matched a driver and then failed for insufficient funds
\* leaves every driver's availability as it was.
C3_InsufficientFundsRollsBack ==
  (last.op = "request" /\ last.result = "insufficient") =>
    \A d \in 1..Len(drivers) :
      drivers[d].is_available = last.pre.drivers[d].is_available

\* C4: completing an in-progress ride moves exactly the fare from the rider's
\* wallet to the bound driver's wallet and leaves that driver available.
C4_CompleteSettlesFare ==
  (last.op = "complete" /\ last.result = "completed" /\ InProgress(PreRide)) =>
    /\ riders[PreRide.rider].wallet =
         last.pre.riders[PreRide.rider].wallet - PreRide.estimated_fare
    /\ drivers[PreRide.driver].wallet =
         last.pre.drivers[PreRide.driver].wallet + PreRide.estimated_fare
    /\ drivers[PreRide.driver].is_available

C4_Witness ==
  /\ last.op = "complete" /\ last.result = "completed" /\ InProgress(PreRide)
  /\ PreRide.estimated_fare > 0
  /\ ~PreDriver.is_available

\* C5: completing a ride that is already cancelled or completed charges nothing
\* and leaves wallets, histories, total_rides, availability and the registry's
\* counter unchanged.
C5_CompleteOnlyFromInProgress ==
  (last.op = "complete" /\ last.result = "completed" /\ Terminal(PreRide)) =>
    /\ \A r \in 1..Len(riders) :
         /\ riders[r].wallet = last.pre.riders[r].wallet
         /\ riders[r].ride_history = last.pre.riders[r].ride_history
    /\ \A d \in 1..Len(drivers) :
         /\ drivers[d].wallet = last.pre.drivers[d].wallet
         /\ drivers[d].ride_history = last.pre.drivers[d].ride_history
         /\ drivers[d].total_rides = last.pre.drivers[d].total_rides
         /\ drivers[d].is_available = last.pre.drivers[d].is_available
    /\ total_rides = last.pre.total_rides

\* C6: a rider's cancellation of an in-progress ride with a wallet of at least
\* 20 moves exactly 20 from the rider to the bound driver, marks the ride
\* cancelled and makes the bound driver available.
C6_RiderCancelChargesFee ==
  (/\ last.op = "cancel" /\ last.arg = "rider" /\ InProgress(PreRide)
   /\ PreRider.wallet >= 20) =>
    /\ riders[last.rider].wallet = PreRider.wallet - 20
    /\ drivers[PreRide.driver].wallet = PreDriver.wallet + 20
    /\ rides[last.ride].is_cancelled
    /\ ~rides[last.ride].is_completed
    /\ drivers[PreRide.driver].is_available

C6_Witness ==
  /\ last.op = "cancel" /\ last.arg = "rider" /\ InProgress(PreRide)
  /\ PreRider.wallet = 20
  /\ ~PreDriver.is_available

\* C7: a rider's cancellation of an in-progress ride with a wallet below 20
\* still cancels the ride and frees the bound driver, and changes neither the
\* rider's nor the driver's wallet.
C7_RiderCancelWithoutFunds ==
  (/\ last.op = "cancel" /\ last.arg = "rider" /\ InProgress(PreRide)
   /\ PreRider.wallet < 20) =>
    /\ last.result = "cancelled"
    /\ rides[last.ride].is_cancelled
    /\ drivers[PreRide.driver].is_available
    /\ riders[last.rider].wallet = PreRider.wallet
    /\ drivers[PreRide.driver].wallet = PreDriver.wallet

C7_Witness ==
  /\ last.op = "cancel" /\ last.arg = "rider" /\ InProgress(PreRide)
  /\ PreRider.wallet < 20
  /\ ~PreDriver.is_available

\* C8: a driver's cancellation of an in-progress ride changes no wallet, marks
\* the ride cancelled and makes the bound driver available.
C8_DriverCancelIsFree ==
  (last.op = "cancel" /\ last.arg = "driver" /\ InProgress(PreRide)) =>
    /\ \A r \in 1..Len(riders) : riders[r].wallet = last.pre.riders[r].wallet
    /\ \A d \in 1..Len(drivers) : drivers[d].wallet = last.pre.drivers[d].wallet
    /\ rides[last.ride].is_cancelled
    /\ drivers[PreRide.driver].is_available

C8_Witness ==
  /\ last.op = "cancel" /\ last.arg = "driver" /\ InProgress(PreRide)
  /\ PreRider.wallet >= 20
  /\ ~PreDriver.is_available

\* C9: cancelling a ride that is already completed or cancelled is refused and
\* changes nothing at all (so the fee is charged at most once per ride).
C9_CancelTerminalChangesNothing ==
  (last.op = "cancel" /\ Terminal(PreRide)) =>
    /\ last.result = "refused"
    /\ St = last.pre

C9_Witness ==
  /\ last.op = "cancel" /\ last.arg = "rider"
  /\ PreRide.is_cancelled /\ ~PreRide.is_completed
  /\ PreRider.wallet >= 20

\* C10: when matching returns a ride, the driver bound to it was available when
\* selected, has a vehicle, and that vehicle's type equals the requested type
\* up to case.
C10_MatchedDriverIsSuitable ==
  (last.op = "request" /\ Len(rides) = Len(last.pre.rides) + 1) =>
    LET d == rides[Len(rides)].driver IN
    /\ d \in 1..Len(last.pre.drivers)
    /\ last.pre.drivers[d].is_available
    /\ last.pre.drivers[d].vehicle # NoVehicle
    /\ Lower(last.pre.drivers[d].vehicle.vehicle_type) = Lower(last.arg)

C10_Witness ==
  /\ last.op = "request" /\ Len(rides) = Len(last.pre.rides) + 1
  /\ last.arg = "CAR"
  /\ \E d \in 1..Len(last.pre.drivers) :
       ~last.pre.drivers[d].is_available \/ last.pre.drivers[d].vehicle = NoVehicle

\* the drivers matching chose from: available in the state the request ran in,
\* with a vehicle of the requested type
Candidates ==
  {d \in 1..Len(last.pre.drivers) :
     /\ last.pre.drivers[d].is_available
     /\ last.pre.drivers[d].vehicle # NoVehicle
     /\ last.pre.drivers[d].vehicle.vehicle_type = Lower(last.arg)}

\* C11: the driver matching selects is an available driver of the requested type
\* whose average_rating is at least that of every other such driver, and every
\* such driver earlier in the registry has a strictly lower average_rating.
C11_BestRatedFirstInOrder ==
  (last.op = "request" /\ last.driver # 0) =>
    /\ last.driver \in Candidates
    /\ \A d \in Candidates :
         /\ FracLeq(last.pre.drivers[d].average_rating,
                    last.pre.drivers[last.driver].average_rating)
         /\ d < last.driver =>
              FracLess(last.pre.drivers[d].average_rating,
                       last.pre.drivers[last.driver].average_rating)

\* a request matched the second driver although the first, lower rated, was a
\* candidate too
C11_Witness ==
  /\ last.op = "request"
  /\ last.driver = 2
  /\ 1 \in Candidates
  /\ FracLess(last.pre.drivers[1].average_rating, last.pre.drivers[2].average_rating)

\* C12: after a confirmed request the returned ride is in progress with a start
\* time, is bound to the selected driver, who was a candidate and is now
\* unavailable, carries that driver's vehicle, runs from the rider's current
\* location to the destination asked for, has the requester as its rider and is
\* the requester's current_ride.
C12_ConfirmedRideIsBound ==
  (last.op = "request" /\ last.result = "confirmed") =>
    /\ last.ride \in 1..Len(rides)
    /\ last.ride \notin 1..Len(last.pre.rides)
    /\ InProgress(rides[last.ride])
    /\ rides[last.ride].start_time # 0
    /\ last.driver \in Candidates
    /\ rides[last.ride].driver = last.driver
    /\ ~drivers[last.driver].is_available
    /\ rides[last.ride].vehicle = drivers[last.driver].vehicle
    /\ rides[last.ride].start_location = PreRider.current_location
    /\ rides[last.ride].end_location = last.dest
    /\ rides[last.ride].rider = last.rider
    /\ riders[last.rider].current_ride = last.ride

\* a confirmed request of the second rider, matched to the second driver while
\* the first driver is on the first rider's ride
C12_Witness ==
  /\ last.op = "request"
  /\ last.result = "confirmed"
  /\ last.rider = 2
  /\ last.driver = 2
  /\ last.dest \in Destinations
  /\ Len(rides) = 2
  /\ InProgress(rides[1])
  /\ rides[1].driver = 1

\* C13: a request made when no available driver has a vehicle of the requested
\* type returns no ride, matches no driver and leaves the whole state (every
\* driver's availability, every wallet, every current_ride) as it was.
C13_NoDriverChangesNothing ==
  (last.op = "request" /\ Candidates = {}) =>
    /\ last.ride = 0
    /\ last.driver = 0
    /\ St = last.pre

\* the request after one that found no driver is confirmed, for the same rider
C13_Witness ==
  /\ hist.failed.result = "nodriver"
  /\ last.op = "request"
  /\ last.rider = hist.failed.rider
  /\ last.result = "confirmed"

\* C14: when a request matched a driver, the fare of the ride just created
\* decides: above the rider's wallet the request returns no ride and leaves the
\* rider's current_ride and wallet as they were; at most the wallet (equality
\* included) the request is confirmed and the ride becomes the current_ride.
C14_AffordabilityDecides ==
  (last.op = "request" /\ last.driver # 0) =>
    LET id == Len(rides) IN
    /\ id = Len(last.pre.rides) + 1
    /\ IF rides[id].estimated_fare > PreRider.wallet
       THEN /\ last.result = "insufficient"
            /\ last.ride = 0
            /\ riders[last.rider].current_ride = PreRider.current_ride
            /\ riders[last.rider].wallet = PreRider.wallet
       ELSE /\ last.result = "confirmed"
            /\ last.ride = id
            /\ riders[last.rider].current_ride = id

\* a request whose fare equals the wallet was confirmed
C14_Witness ==
  /\ last.op = "request"
  /\ last.result = "confirmed"
  /\ rides[last.ride].estimated_fare = PreRider.wallet

\* the largest fare a ride of the vehicle type can cost: the longest distance
\* random.randint draws, at the type's per-km rate
RateOf(vehicle_type) ==
  CASE vehicle_type = "car" -> CarRate
    [] vehicle_type = "bike" -> BikeRate
    [] vehicle_type = "cng" -> CNGRate

LargestFare(vehicle_type) == base_fare + (MaxDistance * RateOf(vehicle_type))

\* C15: when a request failed for insufficient funds, the rider's next operation
\* loaded cash so that the wallet covers the largest fare of that vehicle type,
\* and the operation after that is the same rider's request for the same type,
\* that request is confirmed.
C15_TopUpThenRetryIsConfirmed ==
  [][(/\ hist.failed.result = "insufficient"
      /\ last.op = "load_cash"
      /\ last.result = "ok"
      /\ last.rider = hist.failed.rider
      /\ riders[last.rider].wallet >= LargestFare(hist.failed.arg)
      /\ last'.op = "request"
      /\ last'.rider = last.rider
      /\ last'.arg = hist.failed.arg)
     => last'.result = "confirmed"]_vars

\* C16: every rider is the rider of at most one in-progress ride, and a request
\* made while the rider's current ride is neither completed nor cancelled
\* returns no ride, matches no driver and leaves the whole state as it was.
C16_OneRideInProgress ==
  /\ \A r \in 1..Len(riders) :
       Cardinality({id \in 1..Len(rides) :
                      rides[id].rider = r /\ InProgress(rides[id])}) <= 1
  /\ (/\ last.op = "request"
      /\ PreRider.current_ride # 0
      /\ InProgress(last.pre.rides[PreRider.current_ride]))
     => /\ last.result = "active"
        /\ last.ride = 0
        /\ last.driver = 0
        /\ St = last.pre

\* the second conjunct's case: a rider on a ride asked for another one while a
\* driver of the type was free
C16_RequestWhileOnRide ==
  /\ last.op = "request"
  /\ last.result = "active"
  /\ InProgress(rides[riders[last.rider].current_ride])
  /\ Candidates # {}

\* C17: completing an in-progress ride appends it at the end of its rider's
\* history, clears that rider's current_ride and adds exactly one to its
\* driver's total_rides; every other rider keeps wallet and history, every other
\* driver keeps wallet, history, total_rides and availability.
C17_CompletionFrame ==
  (last.op = "complete" /\ InProgress(PreRide)) =>
    /\ riders[PreRide.rider].ride_history =
         Append(last.pre.riders[PreRide.rider].ride_history, last.ride)
    /\ riders[PreRide.rider].current_ride = 0
    /\ drivers[PreRide.driver].total_rides =
         last.pre.drivers[PreRide.driver].total_rides + 1
    /\ \A r \in 1..Len(riders) :
         r # PreRide.rider =>
           /\ riders[r].wallet = last.pre.riders[r].wallet
           /\ riders[r].ride_history = last.pre.riders[r].ride_history
    /\ \A d \in 1..Len(drivers) :
         d # PreRide.driver =>
           /\ drivers[d].wallet = last.pre.drivers[d].wallet
           /\ drivers[d].ride_history = last.pre.drivers[d].ride_history
           /\ drivers[d].total_rides = last.pre.drivers[d].total_rides
           /\ drivers[d].is_available = last.pre.drivers[d].is_available

\* an in-progress ride was completed while the other rider was on a ride with the
\* other driver
C17_Witness ==
  /\ last.op = "complete"
  /\ InProgress(PreRide)
  /\ \E id \in 1..Len(rides) :
       /\ id # last.ride
       /\ InProgress(rides[id])
       /\ rides[id].rider \notin {0, PreRide.rider}
       /\ rides[id].driver # PreRide.driver

\* C18: in every rider's ride_history each ride is completed and not cancelled
\* and occurs once, and the history an operation finds is a prefix of the
\* history it leaves.
C18_HistoryOfCompletedRides ==
  /\ \A r \in 1..Len(riders) :
       LET h == riders[r].ride_history IN
       /\ \A i \in 1..Len(h) :
            /\ rides[h[i]].is_completed
            /\ ~rides[h[i]].is_cancelled
       /\ \A i, j \in 1..Len(h) : i # j => h[i] # h[j]
  /\ \A r \in 1..Len(last.pre.riders) :
       LET old == last.pre.riders[r].ride_history IN
       /\ Len(old) <= Len(riders[r].ride_history)
       /\ SubSeq(riders[r].ride_history, 1, Len(old)) = old

\* C19: in the menu flow no rider's wallet is negative (riders register with a
\* non-negative balance).
C19_WalletNeverNegative ==
  \A r \in 1..Len(riders) : riders[r].wallet >= 0

\* C20: every ride has a positive distance and an estimated_fare of 50 plus the
\* distance times its vehicle's per-km rate, and an operation leaves the fare,
\* the distance and the vehicle of every ride it found as they were.
C20_FareFixedAtCreation ==
  /\ \A id \in 1..Len(rides) :
       /\ rides[id].distance > 0
       /\ rides[id].estimated_fare =
            50 + (rides[id].distance * rides[id].vehicle.rate)
  /\ \A id \in 1..Len(last.pre.rides) :
       /\ rides[id].estimated_fare = last.pre.rides[id].estimated_fare
       /\ rides[id].distance = last.pre.rides[id].distance
       /\ rides[id].vehicle = last.pre.rides[id].vehicle

\* a car ride of 5 km, fare 200, has been cancelled and then completed, next to
\* a bike ride
C20_Witness ==
  /\ last.op = "complete"
  /\ PreRide.is_cancelled
  /\ rides[last.ride].vehicle.vehicle_type = "car"
  /\ rides[last.ride].distance = MinDistance
  /\ rides[last.ride].estimated_fare = 200
  /\ \E id \in 1..Len(rides) : rides[id].vehicle.vehicle_type = "bike"

\* the ratings 1, 2, 3, 4, 5, as numbers
ValidRatings == {number(i) : i \in 1..5}

RECURSIVE SumOfScores(_)
SumOfScores(given) ==
  IF Len(given) = 0 THEN 0 ELSE (given[1] \div 10) + SumOfScores(Tail(given))

\* the target's counters are those of the mean of the ratings given
MeanOf(given, average_rating, total_ratings) ==
  (\A i \in 1..Len(given) : given[i] \in ValidRatings) =>
    /\ total_ratings = Len(given)
    /\ Len(given) > 0 =>
         /\ average_rating = Frac(SumOfScores(given), Len(given))
         /\ FracLeq(Frac(1, 1), average_rating)
         /\ FracLeq(average_rating, Frac(5, 1))

\* C21: when the ratings accepted for the driver (for the rider), who started
\* unrated, were all valid scores s1..sn, total_ratings is n and average_rating
\* is (s1 + ... + sn) / n exactly, a value from 1 to 5 once n > 0.
C21_AverageIsTheMean ==
  /\ MeanOf(hist.scores.driver, drivers[1].average_rating, drivers[1].total_ratings)
  /\ MeanOf(hist.scores.rider, riders[1].average_rating, riders[1].total_ratings)

\* the driver has been given 3, 5, 5 or 5, 3, 3 or the like: three valid ratings,
\* the first two different
C21_Witness ==
  /\ Len(hist.scores.driver) = MaxRatings
  /\ \A i \in 1..MaxRatings : hist.scores.driver[i] \in ValidRatings
  /\ hist.scores.driver[1] # hist.scores.driver[2]

\* C22: a rating below 1 or above 5 is refused and leaves the driver's and the
\* rider's average_rating and total_ratings and the ride's rating as they were.
C22_OutOfRangeIsRejected ==
  (/\ last.op \in {"rate_driver", "rate_rider"}
   /\ (last.score < number(1) \/ last.score > number(5))) =>
    /\ last.result = "refused"
    /\ drivers[last.driver].average_rating = PreDriver.average_rating
    /\ drivers[last.driver].total_ratings = PreDriver.total_ratings
    /\ riders[last.rider].average_rating = PreRider.average_rating
    /\ riders[last.rider].total_ratings = PreRider.total_ratings
    /\ rides[last.ride].rating = PreRide.rating

\* C23: a rating given on a ride that is not completed, or that was cancelled, is
\* refused and leaves the driver's and the rider's average_rating and
\* total_ratings as they were.
C23_OnlyCompletedRidesAreRated ==
  (/\ last.op \in {"rate_driver", "rate_rider"}
   /\ (~PreRide.is_completed \/ PreRide.is_cancelled)) =>
    /\ last.result = "refused"
    /\ drivers[last.driver].average_rating = PreDriver.average_rating
    /\ drivers[last.driver].total_ratings = PreDriver.total_ratings
    /\ riders[last.rider].average_rating = PreRider.average_rating
    /\ riders[last.rider].total_ratings = PreRider.total_ratings

\* the drivers with at least one rating, in the state the query ran in
Rated == {d \in 1..Len(last.pre.drivers) : last.pre.drivers[d].total_ratings > 0}

\* C24: get_top_rated_drivers(limit) returns min(limit, number of rated drivers)
\* different drivers, all rated, in an order in which no driver has a larger
\* (average_rating, total_rides) than one before it, and no rated driver left out
\* has a larger (average_rating, total_rides) than a driver returned.
C24_TopRatedIsThePrefix ==
  (last.op = "top_rated") =>
    LET found == last.found
        returned == {found[i] : i \in 1..Len(found)}
    IN /\ returned \subseteq Rated
       /\ Cardinality(returned) = Len(found)
       /\ Len(found) <= last.limit
       /\ Len(found) = IF last.limit < Cardinality(Rated) THEN last.limit
                       ELSE Cardinality(Rated)
       /\ \A i, j \in 1..Len(found) :
            i < j => ~KeyLess(last.pre.drivers, found[i], found[j], TRUE)
       /\ \A d \in Rated \ returned : \A f \in returned :
            ~KeyLess(last.pre.drivers, f, d, TRUE)

\* limit 2 on three rated drivers: the third registered, rated 5 with two rides,
\* comes first, then the first registered, rated 5 with one ride; the driver
\* rated 3 is left out
C24_Witness ==
  /\ last.op = "top_rated"
  /\ last.limit = 2
  /\ Cardinality(Rated) = 3
  /\ last.found = <<3, 1>>
  /\ drivers[1].average_rating = drivers[3].average_rating
  /\ drivers[1].total_rides < drivers[3].total_rides

C26_RoundTripKeepsDrivers ==
  last.op = "load" =>
    /\ Len(drivers) = Len(hist.saved.drivers)
    /\ \A k \in 1..Len(hist.saved.drivers) :
         LET before == hist.saved.drivers[k]
             after == drivers[k]
         IN before.vehicle # NoVehicle =>
              /\ after.vehicle.vehicle_type = before.vehicle.vehicle_type
              /\ after.vehicle.license_plate = before.vehicle.license_plate
              /\ after.vehicle.rate = before.vehicle.rate
              /\ after.is_available = before.is_available
              /\ after.average_rating = before.average_rating
              /\ after.total_ratings = before.total_ratings
              /\ after.total_rides = before.total_rides
              /\ after.wallet = before.wallet

\* a load of files saved while one driver was on a ride and a driver had earned
\* a fare and a rating in the session
C26_Witness ==
  /\ last.op = "load"
  /\ \E k \in 1..Len(drivers) :
       /\ ~drivers[k].is_available
       /\ drivers[k].vehicle # NoVehicle
  /\ \E k \in 1..Len(drivers) :
       /\ drivers[k].wallet > 0
       /\ drivers[k].total_ratings > 0
  /\ hist.saved.rides # <<>>

\* C27: in the menu flow of requests, cancellations and completions, no driver
\* is the bound driver of two rides that are in progress at the same time.
\* Only rides that a rider holds are counted.
C27_OneRidePerDriver ==
  \A i, j \in 1..Len(rides) :
    (/\ i < j
     /\ InProgress(rides[i]) /\ InProgress(rides[j])
     /\ rides[i].rider # 0 /\ rides[j].rider # 0
     /\ riders[rides[i].rider].current_ride = i
     /\ riders[rides[j].rider].current_ride = j)
    => rides[i].driver # rides[j].driver

\* the drivers of state s that no complete or cancel of the menu can reach
Stranded(s) ==
  {d \in 1..Len(s.drivers) :
     /\ ~s.drivers[d].is_available
     /\ ~\E r \in 1..Len(s.riders) :
           LET id == s.riders[r].current_ride IN
           /\ id # 0
           /\ s.rides[id].driver = d
           /\ InProgress(s.rides[id])}

\* C28: in every reachable state, also right after loading saved data, each
\* driver with is_available false is the driver of an in-progress ride that is
\* some registered rider's current_ride.
C28_UnavailableDriverIsOnARide == Stranded(St) = {}

\* the money held in the wallets of state s
RECURSIVE SumWallets(_)
SumWallets(users) ==
  IF users = <<>> THEN 0 ELSE Head(users).wallet + SumWallets(Tail(users))

Money(s) == SumWallets(s.riders) + SumWallets(s.drivers)

\* C29: every complete and every cancel of a matched ride leaves the sum of
\* all rider and driver wallets unchanged; of the menu's operations only
\* load_cash and registration change that sum.
C29_MoneyIsConserved ==
  last.op \in {"request", "complete", "cancel"} => Money(St) = Money(last.pre)

\* a cancellation that moved the fee, after a completion that moved a fare
C29_Witness ==
  /\ last.op = "cancel"
  /\ last.result = "cancelled"
  /\ riders[last.rider].wallet = PreRider.wallet - CANCELLATION_FEE
  /\ \E d \in 1..Len(drivers) : drivers[d].total_rides > 0 /\ drivers[d].wallet > CANCELLATION_FEE

\* sums over the registry
RECURSIVE SumHistories(_)
SumHistories(users) ==
  IF users = <<>> THEN 0
  ELSE Len(Head(users).ride_history) + SumHistories(Tail(users))

\* C30: starting from an empty registry, after any sequence of menu operations
\* the registry's total_rides equals the sum of the drivers' total_rides, the
\* sum of the lengths of the riders' ride histories and the sum of the lengths
\* of the drivers' ride histories.
C30_CountersAgree ==
  /\ total_rides = SumTotalRides(drivers)
  /\ total_rides = SumHistories(riders)
  /\ total_rides = SumHistories(drivers)

\* two completions, by different riders or drivers
C30_Witness ==
  /\ total_rides = 2
  /\ last.op = "complete"
  /\ \E r \in 1..Len(riders) : Len(riders[r].ride_history) = 1

\* C31: a cancelled ride does not block its rider: a request made while the
\* rider's current ride is cancelled (by the rider or by the driver) is not
\* rejected as already active; when an available driver of the requested type
\* exists a ride is created, and it is confirmed when the wallet covers its fare.
C31_CancelledRideDoesNotBlock ==
  (/\ last.op = "request"
   /\ PreRider.current_ride # 0
   /\ last.pre.rides[PreRider.current_ride].is_cancelled)
  => /\ last.result # "active"
     /\ Candidates # {} =>
          /\ last.driver \in Candidates
          /\ Len(rides) = Len(last.pre.rides) + 1
          /\ rides[Len(rides)].estimated_fare <= PreRider.wallet =>
               /\ last.result = "confirmed"
               /\ riders[last.rider].current_ride = Len(rides)

\* a request confirmed with the driver that the rider's cancelled ride released
C31_Witness ==
  /\ last.op = "request"
  /\ last.result = "confirmed"
  /\ PreRider.current_ride # 0
  /\ last.pre.rides[PreRider.current_ride].is_cancelled
  /\ last.pre.rides[PreRider.current_ride].driver = last.driver

\* C32: load_cash with a positive amount succeeds and increases that rider's
\* wallet by exactly the amount; with a zero or negative amount it fails and
\* leaves the wallet unchanged; in neither case does it change any ride, any
\* driver, any other rider or anything else of that rider.
C32_LoadCash ==
  last.op = "load_cash" =>
    /\ IF last.amount > 0
       THEN /\ last.result = "ok"
            /\ riders[last.rider].wallet = PreRider.wallet + last.amount
       ELSE /\ last.result = "refused"
            /\ riders[last.rider].wallet = PreRider.wallet
    /\ riders = [last.pre.riders EXCEPT ![last.rider].wallet = riders[last.rider].wallet]
    /\ drivers = last.pre.drivers
    /\ rides = last.pre.rides
    /\ total_rides = last.pre.total_rides

\* a top-up by a rider on a ride, while another rider and a driver are registered
C32_Witness ==
  /\ last.op = "load_cash"
  /\ last.result = "ok"
  /\ last.amount > 0
  /\ PreRider.current_ride # 0
  /\ Len(riders) > 1
  /\ Len(drivers) > 0
====
